---- MODULE Spec2Model ----
(***************************************************************************)
(* State-machine model of patcher.go (BSWLauncher patch client):           *)
(* main -> checkCDNStatus -> fetchVersionFile -> verifyFiles ->            *)
(* downloadFiles -> worker -> downloadFile.                                *)
(*                                                                         *)
(* Bytes are naturals 0..255, strings are sequences of bytes.  A file's    *)
(* content is a sequence of blocks (one byte each); an s2 stream is a      *)
(* sequence of chunks <<data, crc>>, one per block.                        *)
(***************************************************************************)
EXTENDS Integers, Sequences, FiniteSets, TLC

\* Number of manifest entries of the served manifest.
MaxFiles == 2

\* runtime.NumCPU(): size of the worker pool.
NumWorkers == 2

NumCDNs == 5

DefaultForceDownload == FALSE

VARIABLES
    scen,           \* input: per manifest entry, the local situation
    served,         \* input: how many bytes of version.bin the CDN delivers
    pc,             \* main goroutine: probe, fetch, verify, dispatch, enqueue, wait, done, fatal
    exit,           \* why the process ended: none, ok, noservers, manifest, request
    onlineCDNs,     \* var onlineCDNs []int
    files,          \* versionFile.Files as decoded
    numberOfFiles,  \* versionFile.NumberOfFiles
    disk,           \* local files at their final paths
    part,           \* the <path>.tmp partial files
    toDownload,     \* result of verifyFiles
    jobs,           \* the jobs channel: queue positions of toDownload in flight
    enq,            \* how many entries the coordinator has sent
    wg,             \* the WaitGroup counter
    w,              \* per worker: position in worker()/downloadFile() and locals
    calls,          \* history: per queue position, the downloadFile invocations
    acks,           \* history: per queue position, the number of wg.Done() calls
    inst,           \* history: per queue position, the partial file that was installed
    gets            \* history: the number of requests made for version.bin

vars == <<scen, served, pc, exit, onlineCDNs, files, numberOfFiles, disk, part,
          toDownload, jobs, enq, wg, w, calls, acks, inst, gets>>

FileIds == 1..MaxFiles
WorkerIds == 0..(NumWorkers - 1)

----------------------------------------------------------------------------
(* Bytes, integers on the wire, hex.                                       *)

Zeros(n) == [k \in 1..n |-> 0]

RECURSIVE XorBits(_, _, _)
XorBits(a, b, n) ==
    IF n = 0 THEN 0
    ELSE (((a % 2) + (b % 2)) % 2) + 2 * XorBits(a \div 2, b \div 2, n - 1)

\* data[i] ^= byte(i%0xFF + 0x69), i counted from 0
XorKey(i) == ((i % 255) + 105) % 256

Deobfuscate(data) == [k \in 1..Len(data) |-> XorBits(data[k], XorKey(k - 1), 8)]

RECURSIVE LittleEndian(_, _)
LittleEndian(n, width) ==
    IF width = 0 THEN <<>> ELSE <<n % 256>> \o LittleEndian(n \div 256, width - 1)

\* binary.LittleEndian decoding of an unsigned field (values here stay far
\* below 2^31, so the sign bit of the int64 timestamp is never set).
RECURSIVE FromLittleEndian(_)
FromLittleEndian(bs) ==
    IF bs = <<>> THEN 0 ELSE bs[1] + 256 * FromLittleEndian(Tail(bs))

HexDigit(n) == IF n < 10 THEN 48 + n ELSE 87 + n

\* hex.EncodeToString
RECURSIVE HexEncode(_)
HexEncode(bs) ==
    IF bs = <<>> THEN <<>>
    ELSE <<HexDigit(bs[1] \div 16), HexDigit(bs[1] % 16)>> \o HexEncode(Tail(bs))

\* blake2b.New256 + Sum: a collision-free digest of the content read.
Blake2b(content) == <<Len(content)>> \o content

LocalHash(content) == HexEncode(Blake2b(content))

----------------------------------------------------------------------------
(* The s2 codec: one chunk <<data, crc>> per block.                        *)

Crc(b) == (7 * b + 3) % 256

Compress(content) == [k \in 1..Len(content) |-> <<content[k], Crc(content[k])>>]

\* An HTML error page (or any other non-s2 bytes): a chunk whose check fails.
Junk == <<60, 0>>

ChunkOK(c) == c[2] = Crc(c[1])

\* s2.NewReader + io.Copy: blocks are written out until the first bad chunk.
RECURSIVE Decompress(_)
Decompress(stream) ==
    IF stream = <<>> THEN [ok |-> TRUE, out |-> <<>>]
    ELSE IF ~ChunkOK(stream[1]) THEN [ok |-> FALSE, out |-> <<>>]
    ELSE LET rest == Decompress(Tail(stream))
         IN  [ok |-> rest.ok, out |-> <<stream[1][1]>> \o rest.out]

----------------------------------------------------------------------------
(* The environment: what the CDN holds and what the install directory      *)
(* holds when the process starts.                                          *)

\* missing:      no local file, no partial file
\* resume:       an older version installed, and the first chunk of the
\*               manifest's version already in the partial file
\* oldpart:      no local file, and a partial file left by an interrupted
\*               download of an older version
\* uptodate:     the manifest's version installed, with another timestamp
\* protected:    a read-only (0444) file differing from the manifest
\* protectedok:  a read-only (0444) file equal to the manifest's version
\* badurl:       no local file, and a path that is no valid URL path
Scenarios == {"missing", "resume", "oldpart", "uptodate", "protected",
              "protectedok", "badurl"}

\* Content of entry i in the manifest's version, and in an older version.
NewContent(i) == <<4 * i + 2, 4 * i + 3>>
OldContent(i) == <<4 * i, 4 * i + 3>>

\* "b", "c", ...; with a leading "%" the path is not a valid URL path.
PlainPath(i) == <<97 + i>>
PercentPath(i) == <<37, 97 + i>>
PathOf(i, s) == IF s = "badurl" THEN PercentPath(i) ELSE PlainPath(i)

ManifestTime(i) == 1000 + i

ServerEntry(i, s) ==
    [Path |-> PathOf(i, s), Hash |-> LocalHash(NewContent(i)),
     LastModified |-> ManifestTime(i)]

ServerManifest(sc) == [i \in FileIds |-> ServerEntry(i, sc[i])]

\* The install directory itself is the path "".
RootPath == <<>>

\* The names under which something exists, or comes to exist, locally.
Paths == {PlainPath(i) : i \in FileIds} \cup {RootPath}

Absent == [kind |-> "absent", mode |-> "none", content |-> <<>>, mtime |-> 0]

RegularFile(content, mode, mtime) ==
    [kind |-> "file", mode |-> mode, content |-> content, mtime |-> mtime]

Directory == [kind |-> "dir", mode |-> "dir", content |-> <<>>, mtime |-> 0]

NoPart == [exists |-> FALSE, data |-> <<>>]

PartFile(data) == [exists |-> TRUE, data |-> data]

InitDiskOf(i, s) ==
    CASE s = "resume"      -> RegularFile(OldContent(i), "0644", 7)
      [] s = "uptodate"    -> RegularFile(NewContent(i), "0644", 7)
      [] s = "protected"   -> RegularFile(OldContent(i), "0444", 7)
      [] s = "protectedok" -> RegularFile(NewContent(i), "0444", 7)
      [] OTHER             -> Absent

InitPartOf(i, s) ==
    CASE s = "resume"  -> PartFile(SubSeq(Compress(NewContent(i)), 1, 1))
      [] s = "oldpart" -> PartFile(SubSeq(Compress(OldContent(i)), 1, 1))
      [] OTHER         -> NoPart

\* The manifest entry stored under a path, 0 if there is none.
EntryAt(sc, p) ==
    IF \E i \in FileIds : p = PlainPath(i) /\ sc[i] # "badurl"
    THEN CHOOSE i \in FileIds : p = PlainPath(i)
    ELSE 0

DiskAtStart(sc, p) ==
    IF p = RootPath THEN Directory
    ELSE IF EntryAt(sc, p) = 0 THEN Absent
    ELSE InitDiskOf(EntryAt(sc, p), sc[EntryAt(sc, p)])

PartAtStart(sc, p) ==
    IF EntryAt(sc, p) = 0 THEN NoPart
    ELSE InitPartOf(EntryAt(sc, p), sc[EntryAt(sc, p)])

InitDisk(sc) == [p \in Paths |-> DiskAtStart(sc, p)]

InitPart(sc) == [p \in Paths |-> PartAtStart(sc, p)]

----------------------------------------------------------------------------
(* Manifest wire format.                                                   *)

EncodeEntry(e) ==
    LittleEndian(Len(e.Path), 4) \o e.Path \o LittleEndian(Len(e.Hash), 4)
        \o e.Hash \o LittleEndian(e.LastModified, 8)

RECURSIVE EncodeEntries(_)
EncodeEntries(es) ==
    IF es = <<>> THEN <<>> ELSE EncodeEntry(es[1]) \o EncodeEntries(Tail(es))

EncodeManifest(es) == Zeros(16) \o LittleEndian(Len(es), 4) \o EncodeEntries(es)

\* What an intact version.bin looks like on the CDN (the XOR is an involution).
FullWire(sc) == Deobfuscate(EncodeManifest(ServerManifest(sc)))

\* The length of a body cut inside the first entry, after its path length.
CutInFirstPath == 16 + 4 + 4

\* The body getFile returns for version.bin.
Wire(sc, n) == SubSeq(FullWire(sc), 1, n)

\* binary.Read of n bytes from a bytes.Buffer: all or nothing for the
\* destination, but a short buffer is drained.
BinaryRead(buf, n) ==
    IF Len(buf) >= n
    THEN [ok |-> TRUE, val |-> SubSeq(buf, 1, n), rest |-> SubSeq(buf, n + 1, Len(buf))]
    ELSE [ok |-> FALSE, val |-> Zeros(n), rest |-> <<>>]

ReadFile(buf) ==
    LET pl == BinaryRead(buf, 4)
        pb == BinaryRead(pl.rest, FromLittleEndian(pl.val))
        hl == BinaryRead(pb.rest, 4)
        hb == BinaryRead(hl.rest, FromLittleEndian(hl.val))
        lm == BinaryRead(hb.rest, 8)
    IN  [file |-> [Path |-> pb.val, Hash |-> hb.val,
                   LastModified |-> FromLittleEndian(lm.val)],
         rest |-> lm.rest]

RECURSIVE ReadFiles(_, _)
ReadFiles(buf, n) ==
    IF n = 0 THEN <<>>
    ELSE LET r == ReadFile(buf) IN <<r.file>> \o ReadFiles(r.rest, n - 1)

\* fetchVersionFile after a successful getFile: every binary.Read error is dropped.
DecodeVersionFile(data) ==
    LET buffer == Deobfuscate(data)
        pad == BinaryRead(buffer, 16)
        cnt == BinaryRead(pad.rest, 4)
        n == FromLittleEndian(cnt.val)
    IN  [NumberOfFiles |-> n, Files |-> ReadFiles(cnt.rest, n)]

----------------------------------------------------------------------------
(* main, checkCDNStatus, fetchVersionFile.                                 *)

\* The sets of mirrors that may answer the probe with status 200.
ReachableSets == {{}, {1, 3}}

RECURSIVE ProbeLoop(_, _, _)
ProbeLoop(i, up, online) ==
    IF i >= NumCDNs THEN online
    ELSE ProbeLoop(i + 1, up, IF i \in up THEN Append(online, i) ELSE online)

checkCDNStatus(up) == ProbeLoop(0, up, <<>>)

onlineServers == Len(onlineCDNs)

NoWorker ==
    [pc |-> "none", job |-> 0, cdn |-> -1, force |-> FALSE]

Init ==
    /\ scen \in [FileIds -> Scenarios]
    /\ served \in {Len(FullWire(scen)), CutInFirstPath}
    /\ pc = "probe"
    /\ exit = "none"
    /\ onlineCDNs = <<>>
    /\ files = <<>>
    /\ numberOfFiles = 0
    /\ disk = InitDisk(scen)
    /\ part = InitPart(scen)
    /\ toDownload = <<>>
    /\ jobs = <<>>
    /\ enq = 0
    /\ wg = 0
    /\ w = [id \in WorkerIds |-> NoWorker]
    /\ calls = [q \in FileIds |-> <<>>]
    /\ acks = [q \in FileIds |-> 0]
    /\ inst = [q \in FileIds |-> <<>>]
    /\ gets = 0

\* Mutant: the run goes on without a download server.
NoServersNever(n) == FALSE

\* main, line 48: onlineServers == 0
NoServers(n) == n = 0

\* main, lines 48-50
CheckCDNStatus ==
    /\ pc = "probe"
    /\ \E up \in ReachableSets :
        /\ onlineCDNs' = checkCDNStatus(up)
        /\ IF NoServers(Len(checkCDNStatus(up)))
           THEN pc' = "fatal" /\ exit' = "noservers"
           ELSE pc' = "fetch" /\ exit' = exit
    /\ UNCHANGED <<scen, served, files, numberOfFiles, disk, part, toDownload,
                   jobs, enq, wg, w, calls, acks, inst, gets>>

\* main, lines 52-56, when getFile fails
FetchVersionFileError ==
    /\ pc = "fetch"
    /\ gets' = gets + 1
    /\ pc' = "fatal"
    /\ exit' = "manifest"
    /\ UNCHANGED <<scen, served, onlineCDNs, files, numberOfFiles, disk, part,
                   toDownload, jobs, enq, wg, w, calls, acks, inst>>

\* main, lines 52-56, when getFile returns the body
FetchVersionFile ==
    /\ pc = "fetch"
    /\ gets' = gets + 1
    /\ files' = DecodeVersionFile(Wire(scen, served)).Files
    /\ numberOfFiles' = DecodeVersionFile(Wire(scen, served)).NumberOfFiles
    /\ pc' = "verify"
    /\ UNCHANGED <<scen, served, exit, onlineCDNs, disk, part, toDownload,
                   jobs, enq, wg, w, calls, acks, inst>>

----------------------------------------------------------------------------
(* verifyFiles.                                                            *)

\* os.Open succeeds on an existing file or directory of the install directory.
CanOpen(d, path) == path \in DOMAIN d /\ d[path].kind # "absent"

\* Mutant: the read-only check is lost.
IsProtectedNever(f) == FALSE

IsProtected(f) == f.mode = "0444"

\* Mutant: the raw digest, not its hex form, is compared with the manifest.
HashMismatchRaw(f, file) == Blake2b(f.content) # file.Hash

HashMismatch(f, file) == LocalHash(f.content) # file.Hash

\* Mutant: the file is stamped with the current time.
ChtimesNow(d, path, t) ==
    IF path \in DOMAIN d /\ d[path].kind # "absent"
    THEN [d EXCEPT ![path].mtime = 9999] ELSE d

Chtimes(d, path, t) ==
    IF CanOpen(d, path) THEN [d EXCEPT ![path].mtime = t] ELSE d

\* One iteration of the loop of verifyFiles on `file`: the new (toDownload, disk).
VerifyOne(td, d, file) ==
    IF ~CanOpen(d, file.Path)
    THEN [toDownload |-> Append(td, file), disk |-> d]
    ELSE IF IsProtected(d[file.Path])
    THEN [toDownload |-> td, disk |-> d]
    ELSE IF d[file.Path].kind = "dir"
    THEN [toDownload |-> Append(td, file), disk |-> d]
    ELSE IF HashMismatch(d[file.Path], file)
    THEN [toDownload |-> Append(td, file), disk |-> d]
    ELSE [toDownload |-> td, disk |-> Chtimes(d, file.Path, file.LastModified)]

RECURSIVE VerifyLoop(_, _, _, _)
VerifyLoop(fl, k, td, d) ==
    IF k > Len(fl) THEN [toDownload |-> td, disk |-> d]
    ELSE LET r == VerifyOne(td, d, fl[k])
         IN  VerifyLoop(fl, k + 1, r.toDownload, r.disk)

verifyFiles(fl, d) == VerifyLoop(fl, 1, <<>>, d)

\* main, lines 58-59
VerifyFiles ==
    /\ pc = "verify"
    /\ toDownload' = verifyFiles(files, disk).toDownload
    /\ disk' = verifyFiles(files, disk).disk
    /\ pc' = "dispatch"
    /\ UNCHANGED <<scen, served, exit, onlineCDNs, files, numberOfFiles, part,
                   jobs, enq, wg, w, calls, acks, inst, gets>>

----------------------------------------------------------------------------
(* downloadFiles.                                                          *)

Idle ==
    [pc |-> "idle", job |-> 0, cdn |-> -1, force |-> FALSE]

\* The goroutines live while main is inside downloadFiles.
Running == pc \in {"enqueue", "wait"}

\* Mutant: the channel is unbuffered.
ChanCapZero(td) == 0

\* downloadFiles, line 164: make(chan File, len(toDownload))
ChanCap(td) == Len(td)

\* downloadFiles, lines 161-168: wg.Add, make(chan), go worker(...)
StartWorkers ==
    /\ pc = "dispatch"
    /\ wg' = wg + Len(toDownload)
    /\ jobs' = <<>>
    /\ enq' = 0
    /\ w' = [id \in WorkerIds |-> Idle]
    /\ pc' = IF Len(toDownload) = 0 THEN "wait" ELSE "enqueue"
    /\ UNCHANGED <<scen, served, exit, onlineCDNs, files, numberOfFiles, disk,
                   part, toDownload, calls, acks, inst, gets>>

\* downloadFiles, lines 170-172: jobs <- file (the buffer holds len(toDownload))
Enqueue ==
    /\ pc = "enqueue"
    /\ enq < Len(toDownload)
    /\ Len(jobs) < ChanCap(toDownload)
    /\ jobs' = Append(jobs, enq + 1)
    /\ enq' = enq + 1
    /\ pc' = IF enq + 1 = Len(toDownload) THEN "wait" ELSE "enqueue"
    /\ UNCHANGED <<scen, served, exit, onlineCDNs, files, numberOfFiles, disk,
                   part, toDownload, wg, w, calls, acks, inst, gets>>

\* downloadFiles, lines 174-177: wg.Wait() returns, close(jobs), main returns
Wait ==
    /\ pc = "wait"
    /\ wg = 0
    /\ pc' = "done"
    /\ exit' = "ok"
    /\ UNCHANGED <<scen, served, onlineCDNs, files, numberOfFiles, disk, part,
                   toDownload, jobs, enq, wg, w, calls, acks, inst, gets>>

----------------------------------------------------------------------------
(* worker and downloadFile.                                                *)

JobFile(id) == toDownload[w[id].job]

\* Mutant: every worker uses the first mirror, as fetchVersionFile does.
WorkerCDNFirst(id) == onlineCDNs[1]

\* worker, line 181: the mirror of formattedUrl
WorkerCDN(id) == onlineCDNs[(id % onlineServers) + 1]

\* worker, line 182: strings.ReplaceAll(formattedUrl, "\\", "/")
UrlPath(path) == [k \in 1..Len(path) |-> IF path[k] = 92 THEN 47 ELSE path[k]]

IsHexChar(c) == (c >= 48 /\ c <= 57) \/ (c >= 65 /\ c <= 70) \/ (c >= 97 /\ c <= 102)

\* http.NewRequest fails on a control character or a malformed %-escape.
InvalidURL(u) ==
    \E k \in 1..Len(u) :
        \/ u[k] < 32
        \/ u[k] = 127
        \/ /\ u[k] = 37
           /\ ~(k + 2 <= Len(u) /\ IsHexChar(u[k + 1]) /\ IsHexChar(u[k + 2]))

\* What a mirror holds under a URL path: the s2 stream of the manifest's
\* version of the file, or an error/index page.
ServerPayload(u) ==
    IF \E i \in FileIds : u = PlainPath(i)
    THEN Compress(NewContent(CHOOSE i \in FileIds : u = PlainPath(i)))
    ELSE <<Junk>>

\* The body a working mirror answers with: the whole stream, or with a Range
\* header the stream from that offset (nothing when the offset is past the end).
Content(u, ranged, pos) ==
    IF ~ranged THEN ServerPayload(u)
    ELSE IF pos < Len(ServerPayload(u))
         THEN SubSeq(ServerPayload(u), pos + 1, Len(ServerPayload(u)))
         ELSE <<>>

\* The bodies a mirror may answer with (the status code is never looked at):
\* the content, or an error page.
Responses(u, ranged, pos) == {Content(u, ranged, pos), <<Junk>>}

PartExists(p, path) == path \in DOMAIN p /\ p[path].exists

\* Mutant: the force flag is ignored when a partial file exists.
ResumesAlways(force, p, path) == PartExists(p, path)

\* downloadFile, line 217
Resumes(force, p, path) == ~force /\ PartExists(p, path)

\* Mutant: the partial file is always created anew.
OpenPartTruncates(force, p, path) ==
    IF path \in DOMAIN p THEN [p EXCEPT ![path] = PartFile(<<>>)] ELSE p

\* downloadFile, lines 217-234: the partial file after it is opened or created.
OpenPart(force, p, path) ==
    IF Resumes(force, p, path) THEN p
    ELSE IF path \in DOMAIN p THEN [p EXCEPT ![path] = PartFile(<<>>)]
    ELSE p

AppendPart(p, path, bytes) ==
    IF PartExists(p, path) THEN [p EXCEPT ![path].data = @ \o bytes] ELSE p

\* downloadFile, lines 217-222: whether worker id's call sends a Range header,
\* and the offset it names (the size of the partial file).
Ranged(id) == Resumes(w[id].force, part, JobFile(id).Path)

Pos(id) == IF Ranged(id) THEN Len(part[JobFile(id).Path].data) ELSE 0

\* The record of worker id's call of downloadFile and of what it returned.
Called(id, res) ==
    [calls EXCEPT ![w[id].job] =
        Append(@, [force |-> w[id].force, ranged |-> Ranged(id),
                   pos |-> Pos(id), res |-> res])]

\* Mutant: the newest entry is taken first.
RecvLast(js) == [job |-> js[Len(js)], rest |-> SubSeq(js, 1, Len(js) - 1)]

\* Mutant: the entry is read but stays on the channel.
RecvPeek(js) == [job |-> Head(js), rest |-> js]

\* worker, line 180: a receive from the channel, the oldest entry first
Recv(js) == [job |-> Head(js), rest |-> Tail(js)]

\* worker, line 180: j := <-jobs
Receive(id) ==
    /\ Running
    /\ w[id].pc = "idle"
    /\ jobs # <<>>
    /\ jobs' = Recv(jobs).rest
    /\ w' = [w EXCEPT ![id] = [pc |-> "call", job |-> Recv(jobs).job,
                               cdn |-> WorkerCDN(id),
                               force |-> DefaultForceDownload]]
    /\ UNCHANGED <<scen, served, pc, exit, onlineCDNs, files, numberOfFiles, disk,
                   part, toDownload, enq, wg, calls, acks, inst, gets>>

\* Mutant: the loop retries after every error.
WorkerRetriesForever(id) == [w EXCEPT ![id].pc = "call", ![id].force = TRUE]

\* worker, lines 186-197: what the loop does with a non-nil error
WorkerAfterError(id) ==
    IF w[id].force THEN [w EXCEPT ![id] = Idle]
    ELSE [w EXCEPT ![id].pc = "call", ![id].force = TRUE]

\* Mutant: wg.Done() is called after every failed attempt.
DonesOnEveryError(id) == 1

\* worker, lines 187-190: wg.Done() is called only when the forced attempt failed
DonesOnError(id) == IF w[id].force THEN 1 ELSE 0

\* downloadFile returns an error to the worker's loop, lines 184-199.
AttemptFailed(id) ==
    /\ calls' = Called(id, "err")
    /\ w' = WorkerAfterError(id)
    /\ wg' = wg - DonesOnError(id)
    /\ acks' = [acks EXCEPT ![w[id].job] = @ + DonesOnError(id)]

\* The partial file of worker id's job once it is opened or created and
\* `body` is streamed into it.
Received(id, body) ==
    AppendPart(OpenPart(w[id].force, part, JobFile(id).Path), JobFile(id).Path, body)

Bodies(id) == Responses(UrlPath(JobFile(id).Path), Ranged(id), Pos(id))

\* What the s2 reader makes of the partial file once `body` is streamed.
Decompressed(id, body) == Decompress(Received(id, body)[JobFile(id).Path].data)

\* os.Create(filename) fails on a directory and on a read-only file.
CanCreate(d, path) ==
    path \in DOMAIN d /\ d[path].kind # "dir" /\ ~IsProtected(d[path])

\* downloadFile, lines 271-286: the destination once it is created and the
\* decompressed blocks are copied into it.
WriteDest(d, path, blocks) ==
    [d EXCEPT ![path] =
        RegularFile(blocks, IF @.kind = "file" THEN @.mode ELSE "0644", 9999)]

\* downloadFile, line 288
RemovePart(p, path) == [p EXCEPT ![path] = NoPart]

\* Mutant: the destination is created before the request is sent.
DestAfterEager(stage, d, path, blocks, t) ==
    IF stage = "request" THEN d
    ELSE IF stage \in {"do", "copy", "create"}
    THEN (IF CanCreate(d, path) THEN WriteDest(d, path, <<>>) ELSE d)
    ELSE IF stage = "s2" THEN WriteDest(d, path, blocks)
    ELSE Chtimes(WriteDest(d, path, blocks), path, t)

\* downloadFile, lines 203-294: the local files when the call ends at `stage`:
\* in http.NewRequest (213), client.Do (240), io.Copy (266), os.Create (274),
\* the s2 reader (285), or with return nil (294).
DestAfter(stage, d, path, blocks, t) ==
    IF stage \in {"request", "do", "copy", "create"} THEN d
    ELSE IF stage = "s2" THEN WriteDest(d, path, blocks)
    ELSE Chtimes(WriteDest(d, path, blocks), path, t)

\* The local files after worker id's call ended at `stage` with `body` received.
DiskAfter(id, stage, body) ==
    DestAfter(stage, disk, JobFile(id).Path,
              IF stage \in {"s2", "ok"} THEN Decompressed(id, body).out ELSE <<>>,
              JobFile(id).LastModified)

\* downloadFile, lines 211-215: http.NewRequest fails, log.Fatal
RequestFatal(id) ==
    /\ Running
    /\ w[id].pc = "call"
    /\ InvalidURL(UrlPath(JobFile(id).Path))
    /\ calls' = Called(id, "fatal")
    /\ disk' = DiskAfter(id, "request", <<>>)
    /\ pc' = "fatal"
    /\ exit' = "request"
    /\ UNCHANGED <<scen, served, onlineCDNs, files, numberOfFiles, part,
                   toDownload, jobs, enq, wg, w, acks, inst, gets>>

\* downloadFile, lines 204-241: the partial file is opened or created, then
\* client.Do returns an error
DoError(id) ==
    /\ Running
    /\ w[id].pc = "call"
    /\ ~InvalidURL(UrlPath(JobFile(id).Path))
    /\ part' = Received(id, <<>>)
    /\ disk' = DiskAfter(id, "do", <<>>)
    /\ AttemptFailed(id)
    /\ UNCHANGED <<scen, served, pc, exit, onlineCDNs, files, numberOfFiles,
                   toDownload, jobs, enq, inst, gets>>

\* downloadFile, lines 204-267: io.Copy fails after part of the body
StreamError(id) ==
    /\ Running
    /\ w[id].pc = "call"
    /\ ~InvalidURL(UrlPath(JobFile(id).Path))
    /\ \E body \in Bodies(id) :
        \E n \in 0..(Len(body) - 1) :
            part' = Received(id, SubSeq(body, 1, n))
    /\ disk' = DiskAfter(id, "copy", <<>>)
    /\ AttemptFailed(id)
    /\ UNCHANGED <<scen, served, pc, exit, onlineCDNs, files, numberOfFiles,
                   toDownload, jobs, enq, inst, gets>>

\* downloadFile, lines 204-275: the body is streamed to the end, then
\* os.Create(filename) fails
CreateError(id) ==
    /\ Running
    /\ w[id].pc = "call"
    /\ ~InvalidURL(UrlPath(JobFile(id).Path))
    /\ ~CanCreate(disk, JobFile(id).Path)
    /\ \E body \in Bodies(id) : part' = Received(id, body)
    /\ disk' = DiskAfter(id, "create", <<>>)
    /\ AttemptFailed(id)
    /\ UNCHANGED <<scen, served, pc, exit, onlineCDNs, files, numberOfFiles,
                   toDownload, jobs, enq, inst, gets>>

\* downloadFile, lines 204-286: the body is streamed to the end, the
\* destination is created, the s2 reader reports a corrupt stream
DecompressError(id) ==
    /\ Running
    /\ w[id].pc = "call"
    /\ ~InvalidURL(UrlPath(JobFile(id).Path))
    /\ CanCreate(disk, JobFile(id).Path)
    /\ \E body \in Bodies(id) :
        /\ ~Decompressed(id, body).ok
        /\ part' = Received(id, body)
        /\ disk' = DiskAfter(id, "s2", body)
    /\ AttemptFailed(id)
    /\ UNCHANGED <<scen, served, pc, exit, onlineCDNs, files, numberOfFiles,
                   toDownload, jobs, enq, inst, gets>>

\* downloadFile, lines 204-294: the body is streamed to the end and
\* decompressed into the destination, the partial file is removed, the
\* modification time is set, wg.Done(), return nil
Install(id) ==
    /\ Running
    /\ w[id].pc = "call"
    /\ ~InvalidURL(UrlPath(JobFile(id).Path))
    /\ CanCreate(disk, JobFile(id).Path)
    /\ \E body \in Bodies(id) :
        /\ Decompressed(id, body).ok
        /\ disk' = DiskAfter(id, "ok", body)
        /\ part' = RemovePart(Received(id, body), JobFile(id).Path)
        /\ inst' = [inst EXCEPT ![w[id].job] =
                        Received(id, body)[JobFile(id).Path].data]
    /\ wg' = wg - 1
    /\ acks' = [acks EXCEPT ![w[id].job] = @ + 1]
    /\ calls' = Called(id, "ok")
    /\ w' = [w EXCEPT ![id] = Idle]
    /\ UNCHANGED <<scen, served, pc, exit, onlineCDNs, files, numberOfFiles,
                   toDownload, jobs, enq, gets>>

Next ==
    \/ CheckCDNStatus
    \/ FetchVersionFileError
    \/ FetchVersionFile
    \/ VerifyFiles
    \/ StartWorkers
    \/ Enqueue
    \/ Wait
    \/ \E id \in WorkerIds : Receive(id)
    \/ \E id \in WorkerIds : RequestFatal(id)
    \/ \E id \in WorkerIds : DoError(id)
    \/ \E id \in WorkerIds : StreamError(id)
    \/ \E id \in WorkerIds : CreateError(id)
    \/ \E id \in WorkerIds : DecompressError(id)
    \/ \E id \in WorkerIds : Install(id)

Spec == Init /\ [][Next]_vars

\* The steps of the main goroutine and of worker id.
MainStep ==
    \/ CheckCDNStatus
    \/ FetchVersionFileError
    \/ FetchVersionFile
    \/ VerifyFiles
    \/ StartWorkers
    \/ Enqueue
    \/ Wait

WorkerStep(id) ==
    \/ Receive(id)
    \/ RequestFatal(id)
    \/ DoError(id)
    \/ StreamError(id)
    \/ CreateError(id)
    \/ DecompressError(id)
    \/ Install(id)

\* The Go scheduler lets every goroutine that can run take its next step, and
\* every network and disk operation returns.
Fairness == WF_vars(MainStep) /\ \A id \in WorkerIds : WF_vars(WorkerStep(id))

FairSpec == Spec /\ Fairness

\* downloadFile, line 238: client.Do never returns (http.Client{} has no
\* timeout).  The partial file is already opened or created.  One request of
\* the run hangs.
Hang(id) ==
    /\ Running
    /\ w[id].pc = "call"
    /\ ~InvalidURL(UrlPath(JobFile(id).Path))
    /\ \A o \in WorkerIds : w[o].pc # "hung"
    /\ w' = [w EXCEPT ![id].pc = "hung"]
    /\ part' = Received(id, <<>>)
    /\ UNCHANGED <<scen, served, pc, exit, onlineCDNs, files, numberOfFiles, disk,
                   toDownload, jobs, enq, wg, calls, acks, inst, gets>>

HangNext == Next \/ \E id \in WorkerIds : Hang(id)

HangSpec == Init /\ [][HangNext]_vars /\ Fairness

----------------------------------------------------------------------------
(* Vocabulary of the properties.                                           *)

QueueIds == 1..Len(toDownload)

Intact == served = Len(FullWire(scen))

Truncated == served < Len(FullWire(scen))

\* verifyFiles has returned in this run.
Verified == pc \in {"dispatch", "enqueue", "wait", "done"} \/ exit = "request"

Held(q) == \E id \in WorkerIds : w[id].job = q

LastRes(q) == IF calls[q] = <<>> THEN "none" ELSE calls[q][Len(calls[q])].res

Installed(q) == LastRes(q) = "ok"

\* Both attempts returned an error and the worker has let the entry go.
GivenUp(q) == Len(calls[q]) = 2 /\ calls[q][2].res = "err"

Terminal(q) == Installed(q) \/ GivenUp(q)

Hung(id) == w[id].pc = "hung"

AllFailed(q) ==
    /\ calls[q] # <<>>
    /\ \A k \in 1..Len(calls[q]) : calls[q][k].res = "err"
    /\ ~Held(q)

\* The local file an entry's path named when the process started.
LocalAtStart(path) == IF path \in Paths THEN DiskAtStart(scen, path) ELSE Absent

StartsProtected(path) == LocalAtStart(path).mode = "0444"

StartsMissing(path) == LocalAtStart(path).kind = "absent"

\* Not protected, and no digest equal to the manifest's (a directory has none).
StartsStale(file) ==
    /\ ~StartsMissing(file.Path)
    /\ ~StartsProtected(file.Path)
    /\ \/ LocalAtStart(file.Path).kind = "dir"
       \/ LocalHash(LocalAtStart(file.Path).content) # file.Hash

StartsUpToDate(file) ==
    /\ LocalAtStart(file.Path).kind = "file"
    /\ ~StartsProtected(file.Path)
    /\ LocalHash(LocalAtStart(file.Path).content) = file.Hash

Requested(path) == \E q \in QueueIds : toDownload[q].Path = path /\ calls[q] # <<>>

Queued(path) == \E q \in QueueIds : toDownload[q].Path = path

\* The manifest invariant: no two entries name the same path.
UniquePaths ==
    \A i, j \in 1..Len(files) : i # j => files[i].Path # files[j].Path

OnChannel(q) == \E k \in 1..Len(jobs) : jobs[k] = q

\* Entry q was sent on the channel and a worker has received it.
Taken(q) == q <= enq /\ ~OnChannel(q)

----------------------------------------------------------------------------
(* C1: for every job, downloadFile is invoked at most twice; the first     *)
(* invocation has force = false, a second one happens only after the first *)
(* returned an error and has force = true, there is no third; an entry     *)
(* whose every attempt returned an error was attempted exactly twice.      *)
RetryBound ==
    \A q \in FileIds :
        /\ Len(calls[q]) <= 2
        /\ Len(calls[q]) >= 1 => calls[q][1].force = FALSE
        /\ Len(calls[q]) = 2 => calls[q][1].res = "err" /\ calls[q][2].force = TRUE
        /\ AllFailed(q) => Len(calls[q]) = 2

\* An entry was given up after two failed attempts while another entry,
\* taken later, was started afresh.
RetryBoundWitness ==
    /\ GivenUp(1) /\ ~Held(1)
    /\ Len(calls[2]) >= 1 /\ calls[2][1].force = FALSE

(* C2: downloadFiles returns only when every queued entry is terminal      *)
(* (installed, or the forced attempt failed), and wg.Done() is called      *)
(* exactly once per entry, by the one worker holding it; the counter never *)
(* goes below zero.                                                        *)
AckOnce ==
    /\ wg >= 0
    /\ \A q \in FileIds :
        /\ acks[q] <= 1
        /\ Cardinality({id \in WorkerIds : w[id].job = q}) <= 1
        /\ acks[q] = 1 <=> (Installed(q) \/ (GivenUp(q) /\ ~Held(q)))
        /\ acks[q] = 1 => ~Held(q)
    /\ pc \in {"enqueue", "wait", "done"} =>
        wg = Len(toDownload) - Cardinality({q \in QueueIds : acks[q] = 1})
    /\ pc = "done" => \A q \in QueueIds : acks[q] = 1

\* downloadFiles has returned after one entry was installed and one given up.
AckOnceWitness ==
    /\ pc = "done"
    /\ Len(toDownload) = 2
    /\ Installed(1)
    /\ GivenUp(2)

(* C3: a truncated manifest makes fetchVersionFile fail and the run end    *)
(* fatally: nothing is verified and nothing is dispatched from it.         *)
TruncatedManifestIsFatal ==
    Truncated =>
        /\ pc \in {"probe", "fetch", "fatal"}
        /\ toDownload = <<>>
        /\ \A q \in FileIds : calls[q] = <<>>

(* C4: a failure local to one file never ends the process: it ends         *)
(* abnormally only for zero reachable endpoints or a manifest failure.     *)
FileFailuresNeverTerminate ==
    (Intact /\ pc = "fatal") => exit \in {"noservers", "manifest"}

(* C5: an entry whose local file is read-only (0444) is never written: not *)
(* its content, not its modification time, whether or not its hash matches *)
(* the manifest; it is never queued and never the target of a download.    *)
ProtectedUntouched ==
    \A i \in 1..Len(files) :
        (files[i].Path \in Paths /\ StartsProtected(files[i].Path)) =>
            /\ disk[files[i].Path] = DiskAtStart(scen, files[i].Path)
            /\ part[files[i].Path] = PartAtStart(scen, files[i].Path)
            /\ ~Queued(files[i].Path)
            /\ \A id \in WorkerIds :
                w[id].job # 0 => JobFile(id).Path # files[i].Path

\* The run is over, a protected file differing from the manifest was left
\* alone and another entry was installed.
ProtectedUntouchedWitness ==
    /\ pc = "done"
    /\ scen[1] = "protected"
    /\ LocalHash(disk[files[1].Path].content) # files[1].Hash
    /\ \E q \in QueueIds : Installed(q)

(* C6: after a run that completes without any failed attempt, a second     *)
(* verification against the same manifest queues nothing.                  *)
SecondRunQueuesNothing ==
    (/\ pc = "done"
     /\ Intact
     /\ \A q \in FileIds : \A k \in 1..Len(calls[q]) : calls[q][k].res = "ok")
        => verifyFiles(files, disk).toDownload = <<>>

(* C7: the forced attempt discards resumption: its request carries no      *)
(* range and starts at byte 0, and when it succeeds the partial file that  *)
(* is installed and the final file are those of a fresh download, whatever *)
(* the partial file held before.                                           *)
ForcedAttemptIsFresh ==
    \A q \in QueueIds :
        /\ \A k \in 1..Len(calls[q]) :
            calls[q][k].force => ~calls[q][k].ranged /\ calls[q][k].pos = 0
        /\ (Len(calls[q]) = 2 /\ calls[q][2].res = "ok") =>
            /\ inst[q] = ServerPayload(UrlPath(toDownload[q].Path))
            /\ disk[toDownload[q].Path].content =
                    Decompress(ServerPayload(UrlPath(toDownload[q].Path))).out

\* A partial file of one chunk existed, the resumed attempt failed and the
\* forced attempt succeeded.
ForcedAttemptIsFreshWitness ==
    \E q \in QueueIds :
        /\ Len(calls[q]) = 2
        /\ calls[q][1].ranged /\ calls[q][1].pos = 1 /\ calls[q][1].res = "err"
        /\ calls[q][2].res = "ok"

(* C8: after a successful attempt the destination holds the decompressed   *)
(* partial file, whose digest is the manifest's hash, the partial file is  *)
(* gone and the modification time is the manifest's.                       *)
InstalledMatchesManifest ==
    Intact =>
        \A q \in QueueIds :
            Installed(q) =>
                /\ disk[toDownload[q].Path].content = Decompress(inst[q]).out
                /\ ~part[toDownload[q].Path].exists
                /\ disk[toDownload[q].Path].mtime = toDownload[q].LastModified
                /\ LocalHash(disk[toDownload[q].Path].content) = toDownload[q].Hash

(* C9: the verifier's output is, in manifest order, exactly the entries    *)
(* that are Missing or Stale; Protected and UpToDate entries are left out, *)
(* and an entry left out as UpToDate has the manifest's digest.            *)
VerifierOutput ==
    Verified =>
        /\ toDownload =
            SelectSeq(files, LAMBDA f : StartsMissing(f.Path) \/ StartsStale(f))
        /\ \A i \in 1..Len(files) :
            (~Queued(files[i].Path) /\ ~StartsProtected(files[i].Path)) =>
                LocalHash(disk[files[i].Path].content) = files[i].Hash

\* Verification is over: the first entry was up to date, the second stale.
VerifierOutputWitness ==
    /\ pc = "dispatch"
    /\ Intact
    /\ scen[1] = "uptodate" /\ scen[2] = "resume"
    /\ toDownload = <<files[2]>>

(* C10: for an UpToDate entry no request is made, its content and its      *)
(* partial file are left as they were; the only change is its modification *)
(* time, set to the manifest's lastModified.                               *)
UpToDateFrame ==
    \A i \in 1..Len(files) :
        StartsUpToDate(files[i]) =>
            /\ ~Requested(files[i].Path)
            /\ part[files[i].Path] = PartAtStart(scen, files[i].Path)
            /\ disk[files[i].Path] =
                IF Verified
                THEN [DiskAtStart(scen, files[i].Path) EXCEPT
                        !.mtime = files[i].LastModified]
                ELSE DiskAtStart(scen, files[i].Path)

\* The run is over: an up-to-date entry got the manifest's timestamp while
\* another entry was downloaded.
UpToDateFrameWitness ==
    /\ pc = "done"
    /\ scen[1] = "uptodate"
    /\ disk[files[1].Path].mtime = files[1].LastModified
    /\ disk[files[1].Path].mtime # DiskAtStart(scen, files[1].Path).mtime
    /\ \E q \in QueueIds : Installed(q)

(* C11: when the probe finds no reachable endpoint the run ends fatally    *)
(* before any request for the manifest, before any verification, and with  *)
(* the file system (local files, modification times, .tmp files) as it     *)
(* was at start.                                                           *)
ZeroEndpointsIsFatal ==
    (pc # "probe" /\ onlineServers = 0) =>
        /\ pc = "fatal" /\ exit = "noservers"
        /\ gets = 0
        /\ files = <<>> /\ toDownload = <<>>
        /\ \A q \in FileIds : calls[q] = <<>>
        /\ disk = InitDisk(scen)
        /\ part = InitPart(scen)

\* No endpoint answered, with an up-to-date local file whose timestamp
\* verification would have set and a partial file a download would have used.
ZeroEndpointsIsFatalWitness ==
    /\ exit = "noservers"
    /\ scen[1] = "uptodate"
    /\ scen[2] = "resume"

(* C12 as stated: no worker receives a job while the coordinator still has *)
(* entries left to enqueue.                                                *)
AllEnqueuedBeforeDrain ==
    pc = "enqueue" => \A q \in QueueIds : ~Taken(q)

(* C12 amended: the workers run while the coordinator enqueues; a worker   *)
(* only receives an entry that was already placed on the channel, the      *)
(* channel holds the placed entries not yet received in the order they     *)
(* were placed, and the coordinator never finds the channel full.          *)
DrainOnlyEnqueued ==
    /\ enq <= Len(toDownload)
    /\ \A id \in WorkerIds : w[id].job # 0 => Taken(w[id].job)
    /\ \A k \in 1..Len(jobs) : jobs[k] \in 1..enq
    /\ \A k \in 1..(Len(jobs) - 1) : jobs[k] < jobs[k + 1]
    /\ pc = "enqueue" => (enq < Len(toDownload) /\ Len(jobs) < ChanCap(toDownload))
    /\ pc \in {"wait", "done"} => enq = Len(toDownload)

\* A worker holds the first entry while the second is not yet enqueued.
DrainOnlyEnqueuedWitness ==
    /\ pc = "enqueue"
    /\ enq = 1
    /\ \E id \in WorkerIds : w[id].job = 1

HeldPathsDistinct ==
    \A id1, id2 \in WorkerIds :
        (id1 # id2 /\ w[id1].job # 0 /\ w[id2].job # 0) =>
            /\ w[id1].job # w[id2].job
            /\ UniquePaths => JobFile(id1).Path # JobFile(id2).Path

\* A step hands an entry to no second worker, never hands out again an entry
\* that was let go, and changes only files of an entry a worker holds, that
\* worker being the one that moves.
WritesOwnEntryOnly ==
    /\ \A q \in QueueIds : \A id1, id2 \in WorkerIds :
        (w[id1].job = q /\ id1 # id2) => w'[id2].job # q
    /\ \A q \in QueueIds : \A id \in WorkerIds :
        (Taken(q) /\ ~Held(q)) => w'[id].job # q
    /\ (Running /\ UniquePaths) =>
        \A p \in Paths :
            (disk'[p] # disk[p] \/ part'[p] # part[p]) =>
                \E id \in WorkerIds :
                    /\ w[id].job # 0
                    /\ JobFile(id).Path = p
                    /\ \A o \in WorkerIds \ {id} : w'[o] = w[o]

(* C14: with unique entry paths, each queued entry is received by exactly  *)
(* one worker, no two workers hold entries of the same path at the same    *)
(* time, and a worker writes only the destination and the .tmp file of the *)
(* entry it holds.                                                         *)
ExclusivePaths == []HeldPathsDistinct /\ [][WritesOwnEntryOnly]_vars

\* Two workers hold the two entries at the same time and one of them has
\* already written its partial file.
ExclusivePathsWitness ==
    /\ w[0].job # 0 /\ w[1].job # 0
    /\ \E id \in WorkerIds :
        /\ w[id].force
        /\ JobFile(id).Path \in Paths
        /\ part[JobFile(id).Path] # PartAtStart(scen, JobFile(id).Path)

(* C15: when one worker's request never returns, that worker stays blocked *)
(* and downloadFiles never returns, but under fair scheduling every queued *)
(* entry other than the one the hung worker holds still reaches a terminal *)
(* state (stated for a completely served manifest).                        *)
OthersFinishDespiteHang ==
    /\ [](\A id \in WorkerIds : Hung(id) => [](Hung(id) /\ pc # "done"))
    /\ \A q \in FileIds :
        (/\ Intact
         /\ q \in QueueIds
         /\ \E id \in WorkerIds : Hung(id) /\ w[id].job # q)
            ~> Terminal(q)

(* C16 as stated: for queued entries a before b, downloadFile has been     *)
(* called for a by the time any worker receives b.                         *)
FifoAttemptStart ==
    \A a, b \in QueueIds : (a < b /\ Taken(b)) => calls[a] # <<>>

(* C16 amended: entries are received in the order the verifier queued      *)
(* them: for queued entries a before b, a is received by some worker no    *)
(* later than b is received by any worker; the order in which their        *)
(* attempts start and complete is unconstrained.                           *)
FifoReceive ==
    /\ \A a, b \in QueueIds : (a < b /\ Taken(b)) => Taken(a)
    /\ \A k \in 1..(Len(jobs) - 1) : jobs[k] + 1 = jobs[k + 1]

\* Both entries were received and the second is installed while the first
\* has not finished its first attempt.
FifoReceiveWitness ==
    /\ Len(toDownload) = 2
    /\ Taken(1) /\ Taken(2)
    /\ Installed(2)
    /\ calls[1] = <<>>

(* C17: every request of a worker, for every job it takes and for both     *)
(* attempts of a job, goes to the endpoint reachable[id mod count], which  *)
(* is one the probe found reachable.                                       *)
EndpointBinding ==
    /\ pc # "probe" =>
            {onlineCDNs[k] : k \in 1..Len(onlineCDNs)} \in ReachableSets
    /\ \A id \in WorkerIds :
        w[id].job # 0 =>
            /\ Len(onlineCDNs) > 0
            /\ w[id].cdn = onlineCDNs[(id % Len(onlineCDNs)) + 1]
            /\ \E k \in 1..Len(onlineCDNs) : onlineCDNs[k] = w[id].cdn

\* Worker 1 is about to send the forced request of its second job to the
\* second reachable mirror while worker 0 uses the first one.
EndpointBindingWitness ==
    /\ w[0].pc = "call" /\ w[0].cdn = 1
    /\ w[1].pc = "call" /\ w[1].cdn = 3 /\ w[1].force
    /\ w[1].job = 2
    /\ calls[1] # <<>>

\* A step that changes the destination of a held entry is one in which a
\* whole response body was appended to the entry's partial file, and a step
\* that ends the process leaves every local file alone.
DestChangesAfterTransfer ==
    /\ pc' = "fatal" => disk' = disk
    /\ (Running /\ UniquePaths) =>
        \A id \in WorkerIds :
            (/\ w[id].job # 0
             /\ JobFile(id).Path \in Paths
             /\ disk'[JobFile(id).Path] # disk[JobFile(id).Path]) =>
                \E body \in Bodies(id) :
                    \/ part'[JobFile(id).Path].data =
                            Received(id, body)[JobFile(id).Path].data
                    \/ /\ ~part'[JobFile(id).Path].exists
                       /\ inst'[w[id].job] =
                            Received(id, body)[JobFile(id).Path].data

(* C18: the destination of an entry is not created, truncated or written   *)
(* during an attempt before the transfer into the .tmp file has completed: *)
(* an attempt that fails in request creation, connection or body streaming *)
(* leaves the destination as it was.                                       *)
DestOnlyAfterTransfer == [][DestChangesAfterTransfer]_vars

\* The resumed first attempt of an entry with a stale local file has failed
\* before anything was added to the partial file, and the local file is what
\* it was at start.
DestOnlyAfterTransferWitness ==
    \E q \in QueueIds :
        /\ scen[q] = "resume"
        /\ Len(calls[q]) = 1 /\ calls[q][1].res = "err"
        /\ part[toDownload[q].Path] = PartAtStart(scen, toDownload[q].Path)
        /\ disk[toDownload[q].Path] = DiskAtStart(scen, toDownload[q].Path)

(* C19: when an entry is terminal its destination holds either what it     *)
(* held before the run (or is still absent) or the completely decompressed *)
(* payload that was installed; an entry given up after a decompression     *)
(* failure has no truncated or partly written destination.                 *)
InstallAllOrNothing ==
    \A q \in QueueIds :
        (Terminal(q) /\ toDownload[q].Path \in Paths) =>
            \/ /\ disk[toDownload[q].Path].kind =
                    LocalAtStart(toDownload[q].Path).kind
               /\ disk[toDownload[q].Path].content =
                    LocalAtStart(toDownload[q].Path).content
            \/ /\ Installed(q)
               /\ Decompress(inst[q]).ok
               /\ disk[toDownload[q].Path].kind = "file"
               /\ disk[toDownload[q].Path].content = Decompress(inst[q]).out

(* C20: when every operation returns and the goroutines are scheduled      *)
(* fairly, the coordinator never finds the channel full, every queued      *)
(* entry eventually reaches a terminal state and downloadFiles eventually  *)
(* returns (stated for a completely served manifest).                      *)
DispatchTerminates ==
    /\ [](pc = "enqueue" => Len(jobs) < ChanCap(toDownload))
    /\ \A q \in FileIds : (Intact /\ Running /\ q \in QueueIds) ~> Terminal(q)
    /\ (Intact /\ pc = "dispatch") ~> (pc = "done")

====
